---- MODULE Spec2Model ----
(***************************************************************************)
(* PartyPrint: the print-job table (SQLite table "jobs"), the HTTP         *)
(* handlers of main.py that create, queue, dispatch and complete jobs,     *)
(* the admin actions of admin.py that queue, mark printed and delete, and  *)
(* the printer agents of polling_script.py that poll, download, print and  *)
(* report.                                                                 *)
(*                                                                         *)
(* Every db_query call opens its own connection and runs one statement,    *)
(* so one db_query is one atomic step; a handler that makes two db_query   *)
(* calls is two steps, and other handlers (FastAPI runs "def" routes in a  *)
(* thread pool, the admin app is another process on the same file) may     *)
(* run between them.  A handler that has made its first db_query and not   *)
(* yet its last is an element of the bag inflight.  Both apps open the     *)
(* same jobs.db.  A statement that fails in SQLite itself (a locked or     *)
(* missing database) is outside the model.                                 *)
(***************************************************************************)
EXTENDS Integers, FiniteSets, Sequences, Bags, TLC

\* ------------------------------------------------------------------ bounds
\* Number of uuid4 values handed out (uploads attempted).
MaxJobs == 2
\* Handlers that may be between two db_query calls at the same time.
MaxInflight == 2
\* Printer agents (processes running polling_script.py).
NumAgents == 1

VARIABLES
    jobs,        \* the table: job id -> row, its domain the ids present
    blobs,       \* keys present in the S3 bucket
    nextId,      \* the next value uuid4 returns
    now,         \* CURRENT_TIMESTAMP at the latest INSERT
    inflight,    \* bag of [op, id]: handlers between two db_query calls
    waiting,     \* GET /next-job requests accepted and not yet started
    last,        \* the latest response sent: [op, id, res, prior]
    agent        \* agent -> [pc, job]: where its loop stands, the job it holds

vars == <<jobs, blobs, nextId, now, inflight, waiting, last, agent>>

\* ------------------------------------------------------------------ values
IDs == 1..MaxJobs
Agents == 1..NumAgents
NoJob == 0
\* Form field "user" of POST /upload; "Anonymous" is its default.
Users == {"Anonymous"}
ImageNames == {"photo.jpg"}
\* The four status strings the handlers write.
Statuses == {"uploaded", "queued", "printing", "printed"}
\* Outcomes of a call to S3: done, botocore ClientError, any other exception.
S3Outcomes == {"ok", "ClientError", "OtherError"}

\* Variants of QueuedStatus: a queue action that writes another status.
QueuedStatusUploaded == "uploaded"
QueuedStatusPrinting == "printing"
QueuedStatusMisspelt == "queue"

\* The status the two queue actions write.
QueuedStatus == "queued"

\* Variant of uuid4: an id generator that hands out its previous value again.
uuid4Reused == IF nextId > 1 THEN nextId - 1 ELSE nextId

\* uuid4(): a value never returned before.
uuid4 == nextId

\* filename = f"{job_id}_{image.filename}"
Filename(job_id, image) == <<job_id, image>>
\* url = f"https://{BUCKET}.s3.amazonaws.com/{filename}"
Url(filename) == <<"s3", filename>>

\* The status stored for id, "absent" when the table has no such row.
StatusOf(tbl, id) == IF id \in DOMAIN tbl THEN tbl[id].status ELSE "absent"

\* What the statement that decided a response found under the id it was
\* given: no row ("absent"), a row that already had the status the handler
\* writes ("same"), or a row with another status ("other").
Prior(tbl, id, written) ==
    IF id \notin DOMAIN tbl THEN "absent"
    ELSE IF tbl[id].status = written THEN "same" ELSE "other"

Response(op, id, res, prior) == [op |-> op, id |-> id, res |-> res, prior |-> prior]

\* An agent at "while True:" with no job in hand.
AtLoopTop == [pc |-> "poll", job |-> NoJob]

\* ------------------------------------------------------------------ SQL
\* INSERT INTO jobs (id, filename, user, url, status) VALUES (?, ?, ?, ?, ?)
\* created_at takes its default, CURRENT_TIMESTAMP.
SqlInsert(tbl, timestamp, id, filename, user, url, status) ==
    [k \in DOMAIN tbl \cup {id} |->
        IF k = id
        THEN [filename |-> filename, user |-> user, url |-> url,
              status |-> status, created_at |-> timestamp]
        ELSE tbl[k]]

\* Variant of SqlUpdateStatus: the UPDATE without its WHERE clause.
SqlUpdateStatusNoWhere(tbl, id, status) ==
    [k \in DOMAIN tbl |-> [tbl[k] EXCEPT !.status = status]]

\* Variant of SqlUpdateStatus: the UPDATE also sets created_at to a later time.
SqlUpdateStatusTouch(tbl, id, status) ==
    [k \in DOMAIN tbl |->
        IF k = id THEN [tbl[k] EXCEPT !.status = status, !.created_at = @ + 1]
        ELSE tbl[k]]

\* UPDATE jobs SET status = ? WHERE id = ?   (no row matches: nothing changes)
SqlUpdateStatus(tbl, id, status) ==
    [k \in DOMAIN tbl |-> IF k = id THEN [tbl[k] EXCEPT !.status = status] ELSE tbl[k]]

\* DELETE FROM jobs WHERE id = ?
SqlDelete(tbl, id) == [k \in DOMAIN tbl \ {id} |-> tbl[k]]

\* SELECT id FROM jobs WHERE id = ?     (the set of matching ids)
SqlSelectById(tbl, id) == {k \in DOMAIN tbl : k = id}

\* SELECT ... FROM jobs WHERE status = 'queued'
QueuedJobs(tbl) == {k \in DOMAIN tbl : tbl[k].status = "queued"}

\* Variant of SqlSelectNextQueued: ORDER BY created_at DESC.
SqlSelectNewestQueued(tbl) ==
    {k \in QueuedJobs(tbl) :
        \A m \in QueuedJobs(tbl) : tbl[k].created_at >= tbl[m].created_at}

\* Variant of SqlSelectNextQueued: the SELECT without WHERE status = 'queued'.
SqlSelectOldestOfAll(tbl) ==
    {k \in DOMAIN tbl : \A m \in DOMAIN tbl : tbl[k].created_at <= tbl[m].created_at}

\* ... ORDER BY created_at ASC LIMIT 1: the rows the statement may return.
\* SQL leaves the order of rows with equal created_at open, so every queued
\* row of least created_at is a possible first row.
SqlSelectNextQueued(tbl) ==
    {k \in QueuedJobs(tbl) :
        \A m \in QueuedJobs(tbl) : tbl[k].created_at <= tbl[m].created_at}

\* ------------------------------------------------------------------ state
Init ==
    /\ jobs = <<>>
    /\ blobs = {}
    /\ nextId = 1
    /\ now = 0
    /\ inflight = EmptyBag
    /\ waiting = 0
    /\ last = Response("none", NoJob, "ok", "absent")
    /\ agent = [a \in Agents |-> AtLoopTop]

Begin(op, id) == inflight (+) SetToBag({[op |-> op, id |-> id]})
End(c) == inflight (-) SetToBag({c})
CanBegin == BagCardinality(inflight) < MaxInflight

\* ------------------------------------------------------------------ main.py
\* POST /upload, the S3 upload succeeds: the blob is stored, the row inserted.
\* CURRENT_TIMESTAMP has a resolution of one second and is read by the INSERT
\* alone; only the order of the timestamps is ever used, so it is enough that
\* between two inserts the clock either stays in the same second or moves on.
UploadOk(user, image, elapsed) ==
    /\ nextId <= MaxJobs
    /\ LET job_id == uuid4
           filename == Filename(job_id, image)
           url == Url(filename)
       IN /\ blobs' = blobs \cup {filename}
          /\ jobs' = SqlInsert(jobs, now + elapsed, job_id, filename, user, url, "uploaded")
          /\ last' = Response("upload", job_id, "ok", "absent")
    /\ nextId' = nextId + 1
    /\ now' = now + elapsed
    /\ UNCHANGED <<inflight, waiting>>

\* POST /upload, s3.upload_fileobj raises: no blob, no row.
UploadFail ==
    /\ nextId <= MaxJobs
    /\ nextId' = nextId + 1
    /\ last' = Response("upload", NoJob, "error", "absent")
    /\ UNCHANGED <<jobs, blobs, now, inflight, waiting>>

\* POST /upload
Upload ==
    \/ \E user \in Users, image \in ImageNames, elapsed \in 0..1 : UploadOk(user, image, elapsed)
    \/ UploadFail

\* GET /jobs: SELECT ... ORDER BY created_at DESC.  It writes nothing and its
\* response is the table itself, so it leaves every variable as it is.
ListJobs == UNCHANGED vars

\* POST /print/{job_id}, first db_query: SELECT id FROM jobs WHERE id = ?
\* No row: 404 "Job not found".
TriggerPrintSelect(job_id) ==
    /\ CanBegin
    /\ IF SqlSelectById(jobs, job_id) = {}
       THEN /\ last' = Response("trigger_print", job_id, "NotFound", "absent")
            /\ UNCHANGED inflight
       ELSE /\ inflight' = Begin("trigger_print", job_id)
            /\ UNCHANGED last
    /\ UNCHANGED <<jobs, blobs, nextId, now, waiting>>

\* POST /print/{job_id}, second db_query: UPDATE ... SET status = 'queued',
\* then {"ok": True, "message": "Job queued for printing."}
TriggerPrintUpdate(c) ==
    /\ BagIn(c, inflight) /\ c.op = "trigger_print"
    /\ jobs' = SqlUpdateStatus(jobs, c.id, QueuedStatus)
    /\ inflight' = End(c)
    /\ last' = Response("trigger_print", c.id, "ok", Prior(jobs, c.id, "queued"))
    /\ UNCHANGED <<blobs, nextId, now, waiting>>

\* GET /next-job, first db_query: the oldest queued row; none: the empty job
\* {"id": None, ...} is returned.
next_job_select ==
    IF SqlSelectNextQueued(jobs) = {}
    THEN /\ last' = Response("next_job", NoJob, "empty", "absent")
         /\ UNCHANGED inflight
    ELSE /\ \E j \in SqlSelectNextQueued(jobs) : inflight' = Begin("next_job", j)
         /\ UNCHANGED last

\* GET /next-job from any client.
NextJobSelect ==
    /\ CanBegin
    /\ next_job_select
    /\ UNCHANGED <<jobs, blobs, nextId, now, waiting>>

\* GET /next-job from one of the clients that were waiting to poll.
PollerNextJobSelect ==
    /\ waiting > 0
    /\ waiting' = waiting - 1
    /\ next_job_select
    /\ UNCHANGED <<jobs, blobs, nextId, now>>

\* Variant of NextJobUpdate: the selected job is returned and the UPDATE that
\* marks it printing is left out.
NextJobReturnOnly(c) ==
    /\ BagIn(c, inflight) /\ c.op = "next_job"
    /\ inflight' = End(c)
    /\ last' = Response("next_job", c.id, "ok", Prior(jobs, c.id, "printing"))
    /\ UNCHANGED <<jobs, blobs, nextId, now, waiting>>

\* GET /next-job, second db_query: UPDATE ... SET status = 'printing' WHERE
\* id = ?, and the selected job is returned.
NextJobUpdate(c) ==
    /\ BagIn(c, inflight) /\ c.op = "next_job"
    /\ jobs' = SqlUpdateStatus(jobs, c.id, "printing")
    /\ inflight' = End(c)
    /\ last' = Response("next_job", c.id, "ok", Prior(jobs, c.id, "printing"))
    /\ UNCHANGED <<blobs, nextId, now, waiting>>

\* Variant of MarkPrinted: UPDATE ... WHERE id = ? AND status = 'printing'.
MarkPrintedIfPrinting(job_id) ==
    /\ jobs' = IF StatusOf(jobs, job_id) = "printing"
               THEN SqlUpdateStatus(jobs, job_id, "printed") ELSE jobs
    /\ last' = Response("mark_printed", job_id, "ok", Prior(jobs, job_id, "printed"))
    /\ UNCHANGED <<blobs, nextId, now, inflight, waiting>>

\* POST /mark-printed/{job_id}: one UPDATE, then {"ok": True}.
MarkPrinted(job_id) ==
    /\ jobs' = SqlUpdateStatus(jobs, job_id, "printed")
    /\ last' = Response("mark_printed", job_id, "ok", Prior(jobs, job_id, "printed"))
    /\ UNCHANGED <<blobs, nextId, now, inflight, waiting>>

\* ------------------------------------------------------------------ admin.py
\* Variant of QueueJob: UPDATE ... WHERE id = ? AND status = 'uploaded'.
QueueJobIfUploaded(job_id) ==
    /\ jobs' = IF StatusOf(jobs, job_id) = "uploaded"
               THEN SqlUpdateStatus(jobs, job_id, QueuedStatus) ELSE jobs
    /\ last' = Response("queue_job", job_id, "ok", Prior(jobs, job_id, "queued"))
    /\ UNCHANGED <<blobs, nextId, now, inflight, waiting>>

\* POST /queue_job/<job_id>: one UPDATE, then the flash "Queued for print."
\* and the redirect to the job list.
QueueJob(job_id) ==
    /\ jobs' = SqlUpdateStatus(jobs, job_id, QueuedStatus)
    /\ last' = Response("queue_job", job_id, "ok", Prior(jobs, job_id, "queued"))
    /\ UNCHANGED <<blobs, nextId, now, inflight, waiting>>

\* POST /mark_printed/<job_id>: one UPDATE, then the flash "Marked as printed."
\* and the redirect.
AdminMarkPrinted(job_id) ==
    /\ jobs' = SqlUpdateStatus(jobs, job_id, "printed")
    /\ last' = Response("mark_printed", job_id, "ok", Prior(jobs, job_id, "printed"))
    /\ UNCHANGED <<blobs, nextId, now, inflight, waiting>>

\* POST /delete_job/<job_id>: SELECT filename; when a row is found,
\* s3.delete_object, whose ClientError is caught and logged and whose other
\* exceptions leave the handler; then DELETE FROM jobs WHERE id = ?.
\*
\* The handler is one step, taken where its DELETE runs.  Its SELECT reads
\* whether the row exists and a column no statement changes; an id is never
\* inserted twice, so a row missing at the SELECT is missing at the DELETE;
\* and no handler reads the bucket.  So the SELECT and the S3 call commute
\* with every step of another handler that falls between them and the
\* DELETE, and the table and the bucket reach the same states.
DeleteJob(job_id, s3) ==
    /\ IF job_id \in DOMAIN jobs
       THEN CASE s3 = "ok" ->
                   /\ blobs' = blobs \ {jobs[job_id].filename}
                   /\ jobs' = SqlDelete(jobs, job_id)
                   /\ last' = Response("delete_job", job_id, "ok", "other")
              [] s3 = "ClientError" ->
                   /\ jobs' = SqlDelete(jobs, job_id)
                   /\ last' = Response("delete_job", job_id, "ok", "other")
                   /\ UNCHANGED blobs
              [] OTHER ->
                   /\ last' = Response("delete_job", job_id, "error", "other")
                   /\ UNCHANGED <<jobs, blobs>>
       ELSE /\ s3 = "ok"    \* no row: S3 is not called, the DELETE still runs
            /\ jobs' = SqlDelete(jobs, job_id)
            /\ last' = Response("delete_job", job_id, "ok", "absent")
            /\ UNCHANGED blobs
    /\ UNCHANGED <<nextId, now, inflight, waiting>>

\* ---------------------------------------------------------- polling_script.py
\* One agent is one process running main(): a loop of GET /next-job and,
\* when a job came back, download_and_print(url, job_id).  Its pc is
\*   "poll"      at "while True:", about to send GET /next-job
\*   "await"     GET /next-job sent, the handler between SELECT and UPDATE
\*   "download"  in download_and_print, about to requests.get(url)
\*   "print"     file written, about to run lp
\*   "report"    lp has run, about to POST /mark-printed/{job_id}
\*   "idle"      in time.sleep(3), the branch of an empty answer
\*   "backoff"   in time.sleep(5), the except branch of main
\* and job is the job_id download_and_print was called with.  The handler of
\* an agent's GET /next-job is a continuation in inflight like any other.
InSleep3 == [pc |-> "idle", job |-> NoJob]
InSleep5 == [pc |-> "backoff", job |-> NoJob]

\* Outcomes of an HTTP request of the agent: an answer with status 200, an
\* answer with another status, an exception raised by requests.
HttpOutcomes == {"200", "non200", "exception"}
\* Outcomes of subprocess.run(["lp", path]): lp ran (whatever its exit code,
\* there is no check=True), or the call raised (no lp on the machine).
LpOutcomes == {"ran", "exception"}

\* The object the job's url points to is in the bucket.
BlobPresent(job_id) == \E image \in ImageNames : Filename(job_id, image) \in blobs

\* r = requests.get(f"{SERVER}/next-job", timeout=10), the request reaches the
\* handler: an empty answer sends the agent to time.sleep(3).
AgentPoll(a) ==
    /\ agent[a].pc = "poll"
    /\ next_job_select
    /\ agent' = [agent EXCEPT ![a] = IF SqlSelectNextQueued(jobs) = {}
                                     THEN InSleep3
                                     ELSE [pc |-> "await", job |-> NoJob]]
    /\ UNCHANGED <<jobs, blobs, nextId, now, waiting>>

\* requests.get raises before the handler runs (server unreachable): the
\* except branch, time.sleep(5).
AgentPollError(a) ==
    /\ agent[a].pc = "poll"
    /\ agent' = [agent EXCEPT ![a] = InSleep5]
    /\ UNCHANGED <<jobs, blobs, nextId, now, inflight, waiting, last>>

\* The handler of the agent's GET /next-job runs its UPDATE and answers.  The
\* answer arrives and job.get("id") is set: download_and_print is called; or
\* it does not arrive (timeout=10, connection lost) and requests.get raises.
AgentReceive(a, c, arrives) ==
    /\ agent[a].pc = "await"
    /\ NextJobUpdate(c)
    /\ agent' = [agent EXCEPT ![a] = IF arrives
                                     THEN [pc |-> "download", job |-> c.id]
                                     ELSE InSleep5]

\* Variant of AgentDownload: the report is sent whatever the download did.
AgentDownloadReportsAnyway(a, r) ==
    /\ agent[a].pc = "download"
    /\ r = "200" => BlobPresent(agent[a].job)
    /\ agent' = [agent EXCEPT ![a].pc = "report"]
    /\ UNCHANGED <<jobs, blobs, nextId, now, inflight, waiting, last>>

\* Variant of AgentDownload: a failed download puts the job back in the queue.
AgentDownloadRequeues(a, r) ==
    /\ agent[a].pc = "download"
    /\ r = "200" => BlobPresent(agent[a].job)
    /\ agent' = [agent EXCEPT ![a] = CASE r = "200" -> [agent[a] EXCEPT !.pc = "print"]
                                       [] r = "non200" -> AtLoopTop
                                       [] OTHER -> InSleep5]
    /\ jobs' = IF r = "200" THEN jobs ELSE SqlUpdateStatus(jobs, agent[a].job, "queued")
    /\ UNCHANGED <<blobs, nextId, now, inflight, waiting, last>>

\* r = requests.get(url, stream=True): status 200, the file is written;
\* another status, the warning is printed, download_and_print returns and
\* the loop starts over at once; an exception, the except branch of main.
AgentDownload(a, r) ==
    /\ agent[a].pc = "download"
    /\ r = "200" => BlobPresent(agent[a].job)
    /\ agent' = [agent EXCEPT ![a] = CASE r = "200" -> [agent[a] EXCEPT !.pc = "print"]
                                       [] r = "non200" -> AtLoopTop
                                       [] OTHER -> InSleep5]
    /\ UNCHANGED <<jobs, blobs, nextId, now, inflight, waiting, last>>

\* subprocess.run(["lp", str(local_path)])
AgentPrint(a, r) ==
    /\ agent[a].pc = "print"
    /\ agent' = [agent EXCEPT ![a] = IF r = "ran"
                                     THEN [agent[a] EXCEPT !.pc = "report"]
                                     ELSE InSleep5]
    /\ UNCHANGED <<jobs, blobs, nextId, now, inflight, waiting, last>>

\* Variant of AgentReport: download_and_print returns without the POST.
AgentReportLeftOut(a, arrives) ==
    /\ agent[a].pc = "report"
    /\ agent' = [agent EXCEPT ![a] = AtLoopTop]
    /\ UNCHANGED <<jobs, blobs, nextId, now, inflight, waiting, last>>

\* requests.post(f"{SERVER}/mark-printed/{job_id}"), the request reaches the
\* handler; the answer is not looked at, download_and_print returns and the
\* loop starts over; an answer that does not arrive raises in requests.post.
AgentReport(a, arrives) ==
    /\ agent[a].pc = "report"
    /\ MarkPrinted(agent[a].job)
    /\ agent' = [agent EXCEPT ![a] = IF arrives THEN AtLoopTop ELSE InSleep5]

\* requests.post does not reach the handler: it raises (server unreachable)
\* and main's except branch sleeps, or something in front of the handler
\* answers with a status that is not 2xx, which download_and_print ignores.
AgentReportFails(a, r) ==
    /\ agent[a].pc = "report"
    /\ r # "200"
    /\ agent' = [agent EXCEPT ![a] = IF r = "exception" THEN InSleep5 ELSE AtLoopTop]
    /\ UNCHANGED <<jobs, blobs, nextId, now, inflight, waiting, last>>

\* time.sleep(3) or time.sleep(5) returns: back to "while True:".
AgentWake(a) ==
    /\ agent[a].pc \in {"idle", "backoff"}
    /\ agent' = [agent EXCEPT ![a] = AtLoopTop]
    /\ UNCHANGED <<jobs, blobs, nextId, now, inflight, waiting, last>>

\* ------------------------------------------------------------------ system
Continuations == {[op |-> o, id |-> j] : o \in {"trigger_print", "next_job"}, j \in IDs}

\* The two web applications with any clients; no agent runs.
Next ==
    \/ Upload /\ UNCHANGED agent
    \/ ListJobs
    \/ \E j \in IDs : TriggerPrintSelect(j) /\ UNCHANGED agent
    \/ \E c \in Continuations : TriggerPrintUpdate(c) /\ UNCHANGED agent
    \/ NextJobSelect /\ UNCHANGED agent
    \/ \E c \in Continuations : NextJobUpdate(c) /\ UNCHANGED agent
    \/ \E j \in IDs : MarkPrinted(j) /\ UNCHANGED agent
    \/ \E j \in IDs : QueueJob(j) /\ UNCHANGED agent
    \/ \E j \in IDs : AdminMarkPrinted(j) /\ UNCHANGED agent
    \/ \E j \in IDs, s3 \in S3Outcomes : DeleteJob(j, s3) /\ UNCHANGED agent

Spec == Init /\ [][Next]_vars

\* ------------------------------------------------------------------ burst
\* N clients poll GET /next-job at the same time against a table that holds
\* exactly N queued jobs (and possibly jobs in other statuses): the table is
\* one the handlers above produce with no job deleted, the last request
\* answered was the queueing of one of the queued jobs, and nothing runs but
\* the N polls.
Init_Burst ==
    \E k \in 1..MaxJobs :
      \E st \in [1..k -> Statuses], ts \in [1..k -> 0..k], user \in Users, image \in ImageNames :
        /\ ts[1] <= 1
        /\ \A i \in 1..(k - 1) : ts[i + 1] - ts[i] \in {0, 1}
        /\ \E j \in 1..k : st[j] = "queued"
        /\ jobs = [i \in 1..k |->
                     [filename |-> Filename(i, image), user |-> user,
                      url |-> Url(Filename(i, image)), status |-> st[i],
                      created_at |-> ts[i]]]
        /\ blobs = {Filename(i, image) : i \in 1..k}
        /\ nextId = k + 1
        /\ now = ts[k]
        /\ inflight = EmptyBag
        /\ waiting = Cardinality({j \in 1..k : st[j] = "queued"})
        /\ agent = [a \in Agents |-> AtLoopTop]
        /\ \E j \in 1..k :
             /\ st[j] = "queued"
             /\ last = Response("queue_job", j, "ok", "other")

Next_Burst ==
    \/ PollerNextJobSelect /\ UNCHANGED agent
    \/ \E c \in Continuations : NextJobUpdate(c) /\ UNCHANGED agent

SpecBurst == Init_Burst /\ [][Next_Burst]_vars

\* ------------------------------------------------------------------ agents
\* The agents at work: users upload, the admin queues and deletes jobs, and
\* the only callers of GET /next-job and POST /mark-printed are the agents.
Next_Agent ==
    \/ Upload /\ UNCHANGED agent
    \/ \E j \in IDs : QueueJob(j) /\ UNCHANGED agent
    \/ \E j \in IDs, s3 \in S3Outcomes : DeleteJob(j, s3) /\ UNCHANGED agent
    \/ \E a \in Agents : AgentPoll(a)
    \/ \E a \in Agents : AgentPollError(a)
    \/ \E a \in Agents, c \in Continuations, arrives \in BOOLEAN : AgentReceive(a, c, arrives)
    \/ \E a \in Agents, r \in HttpOutcomes : AgentDownload(a, r)
    \/ \E a \in Agents, r \in LpOutcomes : AgentPrint(a, r)
    \/ \E a \in Agents, arrives \in BOOLEAN : AgentReport(a, arrives)
    \/ \E a \in Agents, r \in HttpOutcomes : AgentReportFails(a, r)
    \/ \E a \in Agents : AgentWake(a)

SpecAgent == Init /\ [][Next_Agent]_vars

\* ------------------------------------------------------------------ recovery
\* Jobs stuck in printing: every job of the table was dispatched and never
\* completed, the last poll found nothing queued, and nothing runs but the
\* two queue actions and GET /next-job.
Init_Recover ==
    \E k \in 1..MaxJobs :
      \E ts \in [1..k -> 0..k], user \in Users, image \in ImageNames :
        /\ ts[1] <= 1
        /\ \A i \in 1..(k - 1) : ts[i + 1] - ts[i] \in {0, 1}
        /\ jobs = [i \in 1..k |->
                      [filename |-> Filename(i, image), user |-> user,
                       url |-> Url(Filename(i, image)), status |-> "printing",
                       created_at |-> ts[i]]]
        /\ blobs = {Filename(i, image) : i \in 1..k}
        /\ nextId = k + 1
        /\ now = ts[k]
        /\ inflight = EmptyBag
        /\ waiting = 0
        /\ agent = [a \in Agents |-> AtLoopTop]
        /\ last = Response("next_job", NoJob, "empty", "absent")

Next_Recover ==
    \/ \E j \in IDs : TriggerPrintSelect(j) /\ UNCHANGED agent
    \/ \E c \in Continuations : TriggerPrintUpdate(c) /\ UNCHANGED agent
    \/ \E j \in IDs : QueueJob(j) /\ UNCHANGED agent
    \/ NextJobSelect /\ UNCHANGED agent
    \/ \E c \in Continuations : NextJobUpdate(c) /\ UNCHANGED agent

SpecRecover == Init_Recover /\ [][Next_Recover]_vars

\* ------------------------------------------------------------------ serial
\* GET /next-job never overlaps another request: it starts only when no
\* handler is between two statements, and until it has answered no other
\* handler takes a step.
NoDispatchInFlight == \A j \in IDs : ~BagIn([op |-> "next_job", id |-> j], inflight)

Next_Serial ==
    \/ NoDispatchInFlight /\ Upload /\ UNCHANGED agent
    \/ \E j \in IDs : NoDispatchInFlight /\ TriggerPrintSelect(j) /\ UNCHANGED agent
    \/ \E c \in Continuations : NoDispatchInFlight /\ TriggerPrintUpdate(c) /\ UNCHANGED agent
    \/ inflight = EmptyBag /\ NextJobSelect /\ UNCHANGED agent
    \/ \E c \in Continuations : NextJobUpdate(c) /\ UNCHANGED agent
    \/ \E j \in IDs : NoDispatchInFlight /\ MarkPrinted(j) /\ UNCHANGED agent
    \/ \E j \in IDs : NoDispatchInFlight /\ QueueJob(j) /\ UNCHANGED agent
    \/ \E j \in IDs : NoDispatchInFlight /\ AdminMarkPrinted(j) /\ UNCHANGED agent
    \/ \E j \in IDs, s3 \in S3Outcomes :
          NoDispatchInFlight /\ DeleteJob(j, s3) /\ UNCHANGED agent

SpecSerial == Init /\ [][Next_Serial]_vars

\* ------------------------------------------------------------------ liveness
\* The agents at work with nobody in their way: users upload, each job is
\* queued once (a queue action on an uploaded job), nothing is deleted or
\* queued again, every download is answered 200 and every report reaches its
\* handler and is answered.  What may still go wrong is what lands in the
\* except branch of main: the answer of GET /next-job does not arrive, or
\* running lp raises.
QueueOnce(job_id) ==
    /\ StatusOf(jobs, job_id) = "uploaded"
    /\ QueueJob(job_id)

\* One step of agent a's loop.
AgentStep(a) ==
    \/ AgentPoll(a)
    \/ \E c \in Continuations, arrives \in BOOLEAN : AgentReceive(a, c, arrives)
    \/ AgentDownload(a, "200")
    \/ \E r \in LpOutcomes : AgentPrint(a, r)
    \/ AgentReport(a, TRUE)
    \/ AgentWake(a)

Next_Live ==
    \/ Upload /\ UNCHANGED agent
    \/ \E j \in IDs : QueueOnce(j) /\ UNCHANGED agent
    \/ \E a \in Agents : AgentStep(a)

\* Every agent process keeps running: its loop never ends, its sleeps
\* return, and each of its requests returns or raises.
SpecLive == Init /\ [][Next_Live]_vars /\ \A a \in Agents : WF_vars(AgentStep(a))

\* ------------------------------------------------------------------ steps
\* The handler of continuation c made its first db_query in this step.
Selected(c) == CopiesIn(c, inflight') > CopiesIn(c, inflight)
\* The handler of continuation c made its last db_query in this step and
\* sent its response.
Returned(c) == CopiesIn(c, inflight') < CopiesIn(c, inflight)
\* A response of handler op was sent in this step.
Responded(op) == last' # last /\ last'.op = op

NextJobCalls == {c \in Continuations : c.op = "next_job"}
TriggerPrintCalls == {c \in Continuations : c.op = "trigger_print"}

\* ------------------------------------------------------------------ claims

\* C1: N concurrent GET /next-job calls against exactly N queued jobs return
\* every queued job to exactly one caller: a call never returns a job that
\* an earlier call of the burst has returned (in the burst a job is queued
\* until the first call returns it), a call gets the empty result only when
\* no job is queued, and once all N calls have returned no job is left
\* queued.
C1_EachQueuedJobToExactlyOneCaller ==
    /\ [][/\ \A c \in NextJobCalls : Returned(c) => StatusOf(jobs, c.id) = "queued"
          /\ (Responded("next_job") /\ last'.res = "empty") => QueuedJobs(jobs) = {}]_vars
    /\ []((waiting = 0 /\ inflight = EmptyBag) => QueuedJobs(jobs) = {})

\* C2: GET /next-job selects only a job whose status is queued, and the job
\* it returns has the stored status printing at the moment it returns.
C2_ReturnedJobIsPrinting ==
    [][\A c \in NextJobCalls :
          /\ Selected(c) => StatusOf(jobs, c.id) = "queued"
          /\ Returned(c) => StatusOf(jobs', c.id) = "printing"]_vars

\* C3: a GET /next-job call selects a queued job of least created_at among
\* the jobs queued at that moment, and the job it returns is the one it
\* selected; so calls made one after another return the queued jobs in the
\* order of their timestamps.
C3_OldestQueuedFirst ==
    [][\A c \in NextJobCalls :
          /\ Selected(c) =>
                /\ c.id \in QueuedJobs(jobs)
                /\ \A m \in QueuedJobs(jobs) : jobs[c.id].created_at <= jobs[m].created_at
          /\ Returned(c) => last'.op = "next_job" /\ last'.id = c.id /\ last'.res = "ok"]_vars

\* C3 witness: of two jobs with increasing timestamps the older has been
\* dispatched and the younger, still queued, is the one selected now.
C3_Witness ==
    \E a, b \in DOMAIN jobs :
        /\ jobs[a].created_at < jobs[b].created_at
        /\ jobs[a].status = "printing"
        /\ last = Response("next_job", a, "ok", "other")
        /\ jobs[b].status = "queued"
        /\ BagIn([op |-> "next_job", id |-> b], inflight)

\* C4: a completion report (POST /mark-printed/{job_id} or the admin's
\* POST /mark_printed/<job_id>) on an existing job reports success and
\* leaves the job printed, whatever its status was, printed included (the
\* report sent a second time).
C4_CompletePrintFromAnyStatus ==
    [][(Responded("mark_printed") /\ last'.id \in DOMAIN jobs) =>
          /\ last'.res = "ok"
          /\ StatusOf(jobs', last'.id) = "printed"]_vars

\* C4 witness: a completion report has answered success for a job that the
\* report found printed already (the report sent a second time).
C4_Witness ==
    \E j \in DOMAIN jobs :
        /\ last = Response("mark_printed", j, "ok", "same")
        /\ jobs[j].status = "printed"

\* C5: a completion report for an id the table does not hold reports
\* NotFound and changes nothing.
C5_CompletePrintUnknownIdNotFound ==
    [][(Responded("mark_printed") /\ last'.id \notin DOMAIN jobs) =>
          /\ last'.res = "NotFound"
          /\ jobs' = jobs]_vars

\* C6: a queue request for an id the table does not hold reports NotFound
\* and changes nothing, on POST /print/{job_id} (which answers at its SELECT
\* and never reaches its UPDATE) and on the admin's POST /queue_job/<job_id>.
C6_EnqueueUnknownIdNotFound ==
    [][/\ \A c \in TriggerPrintCalls : Selected(c) => c.id \in DOMAIN jobs
       /\ (Responded("trigger_print") /\ inflight' = inflight /\ last'.id \notin DOMAIN jobs) =>
              last'.res = "NotFound" /\ jobs' = jobs
       /\ (Responded("queue_job") /\ last'.id \notin DOMAIN jobs) =>
              last'.res = "NotFound" /\ jobs' = jobs]_vars

\* C7: a queue request whose UPDATE finds its job queued already reports
\* success and leaves the whole table as it was.
C7_EnqueueQueuedIsNoOp ==
    [][/\ \A c \in TriggerPrintCalls :
            (Returned(c) /\ StatusOf(jobs, c.id) = "queued") =>
                /\ last' = Response("trigger_print", c.id, "ok", "same")
                /\ jobs' = jobs
       /\ (Responded("queue_job") /\ StatusOf(jobs, last'.id) = "queued") =>
                /\ last'.res = "ok"
                /\ jobs' = jobs]_vars

\* C7 witness: POST /print/{job_id} has answered for a job that was queued
\* already, with a second job in the table in another status.
C7_Witness ==
    \E j, k \in DOMAIN jobs :
        /\ last = Response("trigger_print", j, "ok", "same")
        /\ jobs[j].status = "queued"
        /\ jobs[k].status \notin {"queued", "uploaded"}

\* C8: with no queued job GET /next-job selects nothing, and its empty
\* result (all fields null) comes with the table and the bucket unchanged.
C8_EmptyQueueNoEffect ==
    [][/\ QueuedJobs(jobs) = {} => \A c \in NextJobCalls : ~Selected(c)
       /\ (Responded("next_job") /\ last'.res = "empty") =>
              /\ last'.id = NoJob
              /\ jobs' = jobs
              /\ blobs' = blobs]_vars

\* C8 witness: the empty result was returned while the table holds jobs,
\* none of them queued.
C8_Witness ==
    /\ last = Response("next_job", NoJob, "empty", "absent")
    /\ \E j \in DOMAIN jobs : jobs[j].status = "printing"
    /\ \E j \in DOMAIN jobs : jobs[j].status = "uploaded"
    /\ QueuedJobs(jobs) = {}

\* C9: a job that was created and is not (or no longer) uploaded is never
\* uploaded again.
C9_NeverBackToUploaded ==
    [][\A j \in IDs :
          (j < nextId /\ StatusOf(jobs, j) # "uploaded") => StatusOf(jobs', j) # "uploaded"]_vars

\* C9 witness: a job that had been dispatched is queued again.
C9_Witness ==
    \E j \in DOMAIN jobs :
        /\ jobs[j].status = "queued"
        /\ last = Response("queue_job", j, "ok", "other")
        /\ BagIn([op |-> "next_job", id |-> j], inflight)

\* C10: a job's status becomes printing only in the step in which GET
\* /next-job returns that job, and becomes printed only in the step of a
\* completion report for that job; upload, the queue actions and delete
\* leave no job newly printing or printed.
C10_PrintingAndPrintedOnlyByTheirOperation ==
    [][\A j \in IDs :
          /\ (StatusOf(jobs', j) = "printing" /\ StatusOf(jobs, j) # "printing") =>
                Returned([op |-> "next_job", id |-> j])
          /\ (StatusOf(jobs', j) = "printed" /\ StatusOf(jobs, j) # "printed") =>
                last' = Response("mark_printed", j, "ok", "other")
          /\ (\E op \in {"upload", "trigger_print", "queue_job", "delete_job"} : Responded(op)) =>
                (StatusOf(jobs', j) \in {"printing", "printed"} => StatusOf(jobs', j) = StatusOf(jobs, j))]_vars

\* C10 witness: one job is printing, returned by GET /next-job, and another
\* is printed.
C10_Witness ==
    \E a, b \in DOMAIN jobs :
        /\ jobs[a].status = "printed"
        /\ jobs[b].status = "printing"
        /\ last = Response("next_job", b, "ok", "other")

\* ------------------------------------------------------------------ C13
\* C13: DeleteJob on an existing job removes the row whether or not the
\* deletion of its blob succeeds: whatever the S3 call does, the row the
\* request named is gone when the handler has finished.
C13_DeleteRemovesRowWhateverS3Does ==
    [][(Responded("delete_job") /\ last'.id \in DOMAIN jobs) =>
          last'.id \notin DOMAIN jobs']_vars

\* ------------------------------------------------------------------ C15
\* C15: the ids POST /upload returns are pairwise distinct and the id of a
\* deleted job is never assigned again: the id of a successful upload is no
\* id of the table and no id handed out before (the ids handed out so far
\* are those below nextId, and every row's id is one of them).
C15_JobIdsNeverRepeat ==
    /\ [][(Responded("upload") /\ last'.res = "ok") =>
             /\ last'.id \notin DOMAIN jobs
             /\ last'.id >= nextId
             /\ last'.id \in DOMAIN jobs']_vars
    /\ [](DOMAIN jobs \subseteq 1..(nextId - 1))

\* A job was created and deleted (its blob outlived a failed S3 delete, its
\* row is gone) and a later upload has just been given another id.
C15_Witness ==
    /\ last.op = "upload" /\ last.res = "ok" /\ last.id \in DOMAIN jobs
    /\ \E k \in 1..(last.id - 1), image \in ImageNames :
          k \notin DOMAIN jobs /\ Filename(k, image) \in blobs

\* ------------------------------------------------------------------ C16
\* C16: the status write of GET /next-job is conditional on the job still
\* being queued: when the selected job is no longer queued at the UPDATE
\* (marked printed, dispatched by another call, or deleted in between), the
\* call leaves the table as it is and does not return that job.
C16_DispatchWriteIsConditional ==
    [][\A c \in NextJobCalls :
          (Returned(c) /\ StatusOf(jobs, c.id) # "queued") =>
              /\ jobs' = jobs
              /\ ~(last'.op = "next_job" /\ last'.id = c.id /\ last'.res = "ok")]_vars

\* ------------------------------------------------------------------ C17
\* C17: a queue action (POST /print/{job_id}, admin POST /queue_job/<job_id>)
\* on a job whose status is printed leaves it printed.
C17_EnqueueLeavesPrinted ==
    [][/\ \A c \in TriggerPrintCalls :
            (Returned(c) /\ StatusOf(jobs, c.id) = "printed") =>
                StatusOf(jobs', c.id) = "printed"
       /\ (Responded("queue_job") /\ StatusOf(jobs, last'.id) = "printed") =>
                StatusOf(jobs', last'.id) = "printed"]_vars

ReportReached(a) ==
    /\ jobs' = SqlUpdateStatus(jobs, agent[a].job, "printed")
    /\ last'.op = "mark_printed" /\ last'.id = agent[a].job

\* C11: when the report of a printed job fails (the POST raises or is
\* answered with a status that is not 2xx), the agent keeps the job and goes
\* on to report it again, at once or after its backoff.
C11_FailedReportIsRetried ==
    [][\A a \in Agents :
          (agent[a].pc = "report" /\ agent'[a] # agent[a] /\ ~ReportReached(a)) =>
              /\ agent'[a].job = agent[a].job
              /\ agent'[a].pc \in {"backoff", "report"}]_vars

\* ------------------------------------------------------------------ C12
\* C12: when the download of a dispatched job fails (another status than
\* 200, or an exception), the agent sends no report, the table stays as it
\* is, and the agent is in its backoff sleep before it polls again.
C12_DownloadFailureBacksOff ==
    [][\A a \in Agents :
          (agent[a].pc = "download" /\ agent'[a].pc \notin {"download", "print"}) =>
              /\ agent'[a].pc = "backoff"
              /\ jobs' = jobs
              /\ ~Responded("mark_printed")]_vars

\* ------------------------------------------------------------------ C14
\* C14: a job in status printing leaves that status only by a queue action,
\* a mark-printed or a delete applied to that very job: no other step of a
\* handler or of an agent changes it, and none but a queue action on it
\* makes it queued.
C14_PrintingStaysPrinting ==
    [][\A j \in IDs :
          (StatusOf(jobs, j) = "printing" /\ StatusOf(jobs', j) # "printing") =>
              /\ last'.id = j
              /\ \/ last'.op \in {"queue_job", "trigger_print"} /\ StatusOf(jobs', j) = "queued"
                 \/ last'.op = "mark_printed" /\ StatusOf(jobs', j) = "printed"
                 \/ last'.op = "delete_job" /\ StatusOf(jobs', j) = "absent"]_vars

\* A job is printing, no agent holds it any more, no request is in flight,
\* and an agent that polled again was told the queue is empty.
C14_Witness ==
    /\ \E j \in DOMAIN jobs : jobs[j].status = "printing" /\ BlobPresent(j)
    /\ \A a \in Agents : agent[a] = InSleep3
    /\ inflight = EmptyBag
    /\ last = Response("next_job", NoJob, "empty", "absent")

\* ------------------------------------------------------------------ C18
\* C18: a queue action on a printing job makes it queued, after which GET
\* /next-job selects it like any queued job and returns it again: a job is
\* selected only while queued, and the call that selected it answers with it
\* and leaves it printing.
C18_RequeuedPrintingJobIsDispatchedAgain ==
    [][/\ \A c \in TriggerPrintCalls :
            (Returned(c) /\ StatusOf(jobs, c.id) = "printing") =>
                /\ StatusOf(jobs', c.id) = "queued"
                /\ c.id \in QueuedJobs(jobs')
       /\ (Responded("queue_job") /\ StatusOf(jobs, last'.id) = "printing") =>
                /\ StatusOf(jobs', last'.id) = "queued"
                /\ last'.id \in QueuedJobs(jobs')
       /\ \A c \in NextJobCalls :
            /\ Selected(c) => c.id \in SqlSelectNextQueued(jobs)
            /\ Returned(c) => /\ last'.op = "next_job" /\ last'.id = c.id /\ last'.res = "ok"
                              /\ StatusOf(jobs', c.id) = "printing"]_vars

\* A job that was stuck in printing has been queued again and GET /next-job
\* has just returned it, finding it queued at its UPDATE.
C18_Witness ==
    \E j \in DOMAIN jobs :
        /\ last = Response("next_job", j, "ok", "other")
        /\ jobs[j].status = "printing"

\* ------------------------------------------------------------------ C20
\* C20: an agent reports a job only after it received that job from GET
\* /next-job, downloaded it and ran the print command, in that order: a
\* mark-printed is answered only for the job of an agent that is about to
\* report, an agent comes to report only from having run lp on that job, to
\* lp only from a download of that job answered 200, and to the download only
\* by the answer of GET /next-job carrying that job.
C20_ReportOnlyAfterReceiveDownloadPrint ==
    [][/\ \A j \in IDs :
            ((Responded("mark_printed") /\ last'.id = j)
               \/ (StatusOf(jobs', j) = "printed" /\ StatusOf(jobs, j) # "printed")) =>
                \E a \in Agents : agent[a].pc = "report" /\ agent[a].job = j
       /\ \A a \in Agents :
            /\ (agent'[a].pc = "report" /\ agent'[a] # agent[a]) =>
                   /\ agent[a].pc = "print"
                   /\ agent'[a].job = agent[a].job
            /\ (agent'[a].pc = "print" /\ agent'[a] # agent[a]) =>
                   /\ agent[a].pc = "download"
                   /\ agent'[a].job = agent[a].job
                   /\ BlobPresent(agent[a].job)
            /\ (agent'[a].pc = "download" /\ agent'[a] # agent[a]) =>
                   /\ agent[a].pc = "await"
                   /\ agent'[a].job \in IDs
                   /\ Returned([op |-> "next_job", id |-> agent'[a].job])
                   /\ last'.op = "next_job" /\ last'.id = agent'[a].job /\ last'.res = "ok"]_vars

\* An agent has received a job, downloaded and printed it, and its report
\* has just been answered: the job is printed and the agent is back at the
\* top of its loop.
C20_Witness ==
    \E a \in Agents, j \in DOMAIN jobs :
        /\ last = Response("mark_printed", j, "ok", "other")
        /\ jobs[j].status = "printed"
        /\ agent[a] = AtLoopTop

\* ------------------------------------------------------------------ C21
\* C21: admin POST /delete_job/<job_id> with an id the table does not hold
\* answers NotFound, deletes no blob and leaves the table as it is.
C21_DeleteUnknownIdNotFound ==
    [][(Responded("delete_job") /\ last'.id \notin DOMAIN jobs) =>
          /\ last'.res = "NotFound"
          /\ blobs' = blobs
          /\ jobs' = jobs]_vars

\* ------------------------------------------------------------------ C22
\* C22: every row of the table has one of the four statuses uploaded,
\* queued, printing, printed, and the row a successful upload inserts has
\* status uploaded.
C22_StatusIsOneOfFour ==
    /\ [](\A j \in DOMAIN jobs : jobs[j].status \in Statuses)
    /\ [][(Responded("upload") /\ last'.res = "ok") =>
             /\ last'.id \in DOMAIN jobs' \ DOMAIN jobs
             /\ jobs'[last'.id].status = "uploaded"]_vars

\* A job has just been uploaded while another job has been through the
\* queue and is printed.
C22_Witness ==
    \E j, k \in DOMAIN jobs :
        /\ last = Response("upload", j, "ok", "absent")
        /\ jobs[j].status = "uploaded"
        /\ jobs[k].status = "printed"

\* ------------------------------------------------------------------ C23
\* The step leaves every row in place, changes no column but status, and
\* changes the status of no row but the target's.
OnlyStatusOf(target) ==
    /\ DOMAIN jobs' = DOMAIN jobs
    /\ \A k \in DOMAIN jobs :
          /\ jobs'[k] = [jobs[k] EXCEPT !.status = jobs'[k].status]
          /\ k # target => jobs'[k] = jobs[k]

\* C23: the queue actions, GET /next-job and the mark-printed actions change
\* only the status of the job they were called for: every step of these
\* handlers (the step that answers, and the SELECT before it) leaves the id,
\* filename, user, url and created_at of every row, the status of every
\* other row, and the bucket as they were.
C23_OnlyTargetStatusChanges ==
    [][/\ \A c \in Continuations : (Selected(c) \/ Returned(c)) => OnlyStatusOf(c.id)
       /\ (\E op \in {"trigger_print", "queue_job", "next_job", "mark_printed"} : Responded(op)) =>
             /\ OnlyStatusOf(last'.id)
             /\ blobs' = blobs]_vars

\* Of two jobs created at different times, one was queued and then marked
\* printed while the other stayed queued.
C23_Witness ==
    \E a, b \in DOMAIN jobs :
        /\ last = Response("mark_printed", a, "ok", "other")
        /\ jobs[a].status = "printed"
        /\ jobs[b].status = "queued"
        /\ jobs[a].created_at # jobs[b].created_at

\* ------------------------------------------------------------------ C24
\* C24: when GET /next-job overlaps no other request, a job is returned at
\* most once between two queue actions on it: a job is queued when it is
\* returned and printing once it has been returned, and a job that is not
\* queued becomes queued by nothing but a queue action on that job; so after
\* a return the job is returned again only after a queue action on it.
C24_ReturnedOncePerEnqueue ==
    [][/\ \A c \in NextJobCalls :
            Returned(c) =>
                /\ StatusOf(jobs, c.id) = "queued"
                /\ StatusOf(jobs', c.id) = "printing"
                /\ last' = Response("next_job", c.id, "ok", "other")
       /\ \A j \in IDs :
            (StatusOf(jobs', j) = "queued" /\ StatusOf(jobs, j) # "queued") =>
                /\ last'.op \in {"trigger_print", "queue_job"}
                /\ last'.id = j]_vars

\* A job has been returned and is printing, nothing has queued it since, and
\* the GET /next-job that came next was told the queue is empty.
C24_Witness ==
    /\ \E j \in DOMAIN jobs : jobs[j].status = "printing"
    /\ \A j \in DOMAIN jobs : jobs[j].status \in {"printing", "uploaded"}
    /\ inflight = EmptyBag
    /\ last = Response("next_job", NoJob, "empty", "absent")

LostInExceptBranch(j) ==
    /\ StatusOf(jobs, j) = "printing"
    /\ \E a \in Agents : agent[a].pc = "backoff"

====
